---- MODULE Spec2Model ----
(***************************************************************************)
(* The LS-8 style emulator of cpu.py: the fetch-decode-execute loop of     *)
(* CPU.run, its handlers and the ALU, over a 256-cell memory and eight     *)
(* registers.  One action is one iteration of the loop of CPU.run.         *)
(***************************************************************************)
EXTENDS Integers, Sequences, FiniteSets, TLC

(* ---------------- opcode constants (cpu.py:5-27) ---------------- *)
HALT == 1
LDI == 130
PRN == 71
NOP == 0
MULT == 162
POP == 70
PUSH == 69
CALL == 80
RET == 17
ADD == 160
CMP == 167
JMP == 84
JEQ == 85
JNE == 86
AND == 168
XOR == 171
OR == 170
NOT == 105
SHL == 172
SHR == 173
MOD == 164
SP == 7

(* sizes of self.ram and self.reg *)
RAM_SIZE == 256
REG_COUNT == 8
(* initial stack pointer, 0xF4 *)
SP_INIT == 244

(* ---------------- bounds of the model ---------------- *)
(* iterations of the run loop explored per run *)
MaxSteps == 12
(* largest magnitude of a register value explored *)
MaxInt == 1000000
(* largest left-shift count explored *)
MaxShift == 12

VARIABLES pc, reg, ram, fl, status, output, steps, last, prev, lastcmp, acct

vars == <<pc, reg, ram, fl, status, output, steps, last, prev, lastcmp, acct>>

(* ---------------- Python list indexing ---------------- *)
(* L[i] is defined for -len <= i < len; a negative i counts from the end *)
RamOk(index) == index >= -RAM_SIZE /\ index < RAM_SIZE

RegOk(index) == index >= -REG_COUNT /\ index < REG_COUNT

RegIdx(index) == IF index < 0 THEN index + REG_COUNT ELSE index

ram_read(mem, index) == mem[IF index < 0 THEN index + RAM_SIZE ELSE index]

ram_write(mem, index, num) ==
  [mem EXCEPT ![IF index < 0 THEN index + RAM_SIZE ELSE index] = num]

Raise(s, e) == [s EXCEPT !.status = e]

Abs(x) == IF x < 0 THEN -x ELSE x

(* ---------------- Python integer operators ---------------- *)
RECURSIVE BitAnd(_, _)
BitAnd(x, y) ==
  IF x = 0 \/ y = 0 THEN 0
  ELSE IF x = -1 THEN y
  ELSE IF y = -1 THEN x
  ELSE (x % 2) * (y % 2) + 2 * BitAnd(x \div 2, y \div 2)

RECURSIVE BitOr(_, _)
BitOr(x, y) ==
  IF x = 0 THEN y
  ELSE IF y = 0 THEN x
  ELSE IF x = -1 \/ y = -1 THEN -1
  ELSE (IF x % 2 = 1 \/ y % 2 = 1 THEN 1 ELSE 0) + 2 * BitOr(x \div 2, y \div 2)

RECURSIVE BitXor(_, _)
BitXor(x, y) ==
  IF x = 0 THEN y
  ELSE IF y = 0 THEN x
  ELSE IF x = -1 THEN -y - 1
  ELSE IF y = -1 THEN -x - 1
  ELSE (IF x % 2 = y % 2 THEN 0 ELSE 1) + 2 * BitXor(x \div 2, y \div 2)

BitNot(x) == -x - 1

RECURSIVE ShiftLeft(_, _)
ShiftLeft(x, n) == IF n = 0 \/ x = 0 THEN x ELSE ShiftLeft(2 * x, n - 1)

RECURSIVE ShiftRight(_, _)
ShiftRight(x, n) ==
  IF n = 0 \/ x = 0 \/ x = -1 THEN x ELSE ShiftRight(x \div 2, n - 1)

(* Python's %: the result takes the sign of the divisor *)
PyMod(x, n) == IF n > 0 THEN x % n ELSE -((-x) % (-n))

RECURSIVE Pow2(_)
Pow2(n) == IF n = 0 THEN 1 ELSE 2 * Pow2(n - 1)

(* ---------------- ALU handlers (class ALU) ---------------- *)
(* mod storing 0 instead of raising on a zero divisor *)
mod_zero_result(s, reg_a, reg_b) ==
  IF ~RegOk(reg_b) THEN Raise(s, "IndexError")
  ELSE LET num == s.reg[RegIdx(reg_b)] IN
    IF ~RegOk(reg_a) THEN Raise(s, "IndexError")
    ELSE IF num = 0 THEN [s EXCEPT !.reg[RegIdx(reg_a)] = 0]
    ELSE [s EXCEPT !.reg[RegIdx(reg_a)] = PyMod(s.reg[RegIdx(reg_a)], num)]

mod(s, reg_a, reg_b) ==
  IF ~RegOk(reg_b) THEN Raise(s, "IndexError")
  ELSE LET num == s.reg[RegIdx(reg_b)] IN
    IF num = 0 THEN Raise(s, "DivisionByZero")
    ELSE IF ~RegOk(reg_a) THEN Raise(s, "IndexError")
    ELSE [s EXCEPT !.reg[RegIdx(reg_a)] = PyMod(s.reg[RegIdx(reg_a)], num)]

shl(s, reg_a, reg_b) ==
  IF ~RegOk(reg_a) \/ ~RegOk(reg_b) THEN Raise(s, "IndexError")
  ELSE IF s.reg[RegIdx(reg_b)] < 0 THEN Raise(s, "ValueError")
  ELSE [s EXCEPT !.reg[RegIdx(reg_a)] =
          ShiftLeft(s.reg[RegIdx(reg_a)], s.reg[RegIdx(reg_b)])]

shr(s, reg_a, reg_b) ==
  IF ~RegOk(reg_a) \/ ~RegOk(reg_b) THEN Raise(s, "IndexError")
  ELSE IF s.reg[RegIdx(reg_b)] < 0 THEN Raise(s, "ValueError")
  ELSE [s EXCEPT !.reg[RegIdx(reg_a)] =
          ShiftRight(s.reg[RegIdx(reg_a)], s.reg[RegIdx(reg_b)])]

not_op(s, reg_a, reg_b) ==
  IF ~RegOk(reg_a) THEN Raise(s, "IndexError")
  ELSE [s EXCEPT !.reg[RegIdx(reg_a)] =
          BitAnd(BitNot(s.reg[RegIdx(reg_a)]), ShiftLeft(1, 8) - 1)]

or_op(s, reg_a, reg_b) ==
  IF ~RegOk(reg_a) \/ ~RegOk(reg_b) THEN Raise(s, "IndexError")
  ELSE [s EXCEPT !.reg[RegIdx(reg_a)] =
          BitOr(s.reg[RegIdx(reg_a)], s.reg[RegIdx(reg_b)])]

xor(s, reg_a, reg_b) ==
  IF ~RegOk(reg_a) \/ ~RegOk(reg_b) THEN Raise(s, "IndexError")
  ELSE [s EXCEPT !.reg[RegIdx(reg_a)] =
          BitXor(s.reg[RegIdx(reg_a)], s.reg[RegIdx(reg_b)])]

and_op(s, reg_a, reg_b) ==
  IF ~RegOk(reg_a) \/ ~RegOk(reg_b) THEN Raise(s, "IndexError")
  ELSE [s EXCEPT !.reg[RegIdx(reg_a)] =
          BitAnd(s.reg[RegIdx(reg_a)], s.reg[RegIdx(reg_b)])]

(* add reducing the sum to 8 bits *)
add_masked(s, reg_a, reg_b) ==
  IF ~RegOk(reg_a) \/ ~RegOk(reg_b) THEN Raise(s, "IndexError")
  ELSE [s EXCEPT !.reg[RegIdx(reg_a)] =
          (s.reg[RegIdx(reg_a)] + s.reg[RegIdx(reg_b)]) % 256]

(* add also resetting the flags *)
add_clears_flags(s, reg_a, reg_b) ==
  IF ~RegOk(reg_a) \/ ~RegOk(reg_b) THEN Raise(s, "IndexError")
  ELSE [s EXCEPT !.reg[RegIdx(reg_a)] =
          s.reg[RegIdx(reg_a)] + s.reg[RegIdx(reg_b)],
                 !.fl = 0]

add(s, reg_a, reg_b) ==
  IF ~RegOk(reg_a) \/ ~RegOk(reg_b) THEN Raise(s, "IndexError")
  ELSE [s EXCEPT !.reg[RegIdx(reg_a)] =
          s.reg[RegIdx(reg_a)] + s.reg[RegIdx(reg_b)]]

mult(s, reg_a, reg_b) ==
  IF ~RegOk(reg_a) \/ ~RegOk(reg_b) THEN Raise(s, "IndexError")
  ELSE [s EXCEPT !.reg[RegIdx(reg_a)] =
          s.reg[RegIdx(reg_a)] * s.reg[RegIdx(reg_b)]]

(* cmp_op with the less-than and greater-than patterns exchanged *)
cmp_op_lt_gt_exchanged(s, reg_a, reg_b) ==
  IF ~RegOk(reg_a) \/ ~RegOk(reg_b) THEN Raise(s, "IndexError")
  ELSE LET num1 == s.reg[RegIdx(reg_a)]
           num2 == s.reg[RegIdx(reg_b)] IN
    IF num1 = num2 THEN [s EXCEPT !.fl = 1]
    ELSE IF num1 < num2 THEN [s EXCEPT !.fl = 2]
    ELSE [s EXCEPT !.fl = 4]

(* cmp_op with the equal and greater-than patterns exchanged *)
cmp_op_swapped(s, reg_a, reg_b) ==
  IF ~RegOk(reg_a) \/ ~RegOk(reg_b) THEN Raise(s, "IndexError")
  ELSE LET num1 == s.reg[RegIdx(reg_a)]
           num2 == s.reg[RegIdx(reg_b)] IN
    IF num1 = num2 THEN [s EXCEPT !.fl = 2]
    ELSE IF num1 < num2 THEN [s EXCEPT !.fl = 4]
    ELSE [s EXCEPT !.fl = 1]

cmp_op(s, reg_a, reg_b) ==
  IF ~RegOk(reg_a) \/ ~RegOk(reg_b) THEN Raise(s, "IndexError")
  ELSE LET num1 == s.reg[RegIdx(reg_a)]
           num2 == s.reg[RegIdx(reg_b)] IN
    IF num1 = num2 THEN [s EXCEPT !.fl = 1]
    ELSE IF num1 < num2 THEN [s EXCEPT !.fl = 4]
    ELSE [s EXCEPT !.fl = 2]

alu_ops == {AND, XOR, OR, NOT, SHL, SHR, MOD, MULT, ADD, CMP}

(* ALU.run: dispatch through ALU.branchtable *)
alu_run(s, opcode, reg_a, reg_b) ==
  CASE opcode = AND -> and_op(s, reg_a, reg_b)
    [] opcode = XOR -> xor(s, reg_a, reg_b)
    [] opcode = OR -> or_op(s, reg_a, reg_b)
    [] opcode = NOT -> not_op(s, reg_a, reg_b)
    [] opcode = SHL -> shl(s, reg_a, reg_b)
    [] opcode = SHR -> shr(s, reg_a, reg_b)
    [] opcode = MOD -> mod(s, reg_a, reg_b)
    [] opcode = MULT -> mult(s, reg_a, reg_b)
    [] opcode = ADD -> add(s, reg_a, reg_b)
    [] opcode = CMP -> cmp_op(s, reg_a, reg_b)
    [] OTHER -> Raise(s, "UnsupportedALU")

(* ---------------- opcode decoding ---------------- *)
(* sets_pc reading bit 5 instead of bit 4 *)
sets_pc_bit5(opcode) == (opcode \div 32) % 2

(* opcode >> 4 & 1 *)
sets_pc(opcode) == (opcode \div 16) % 2

(* increment without the + 1 for the opcode byte *)
increment_operands_only(opcode) == (opcode \div 64) % 4

(* (opcode >> 6 & 0b11) + 1 *)
increment(opcode) == ((opcode \div 64) % 4) + 1

(* ---------------- CPU handlers (class CPU) ---------------- *)
jmp(s) ==
  IF ~RamOk(s.pc + 1) THEN Raise(s, "IndexError")
  ELSE LET num == ram_read(s.ram, s.pc + 1) IN
    IF ~RegOk(num) THEN Raise(s, "IndexError")
    ELSE [s EXCEPT !.pc = s.reg[RegIdx(num)]]

(* jeq jumping also while the flags are still zero *)
jeq_on_zero_too(s) ==
  IF s.fl = 1 \/ s.fl = 0 THEN jmp(s)
  ELSE [s EXCEPT !.pc = @ + increment(JMP)]

jeq(s) ==
  IF s.fl = 1 THEN jmp(s)
  ELSE [s EXCEPT !.pc = @ + increment(JMP)]

(* jne falling through by the opcode byte only *)
jne_fallthrough_one(s) ==
  IF s.fl # 1 THEN jmp(s)
  ELSE [s EXCEPT !.pc = @ + 1]

jne(s) ==
  IF s.fl # 1 THEN jmp(s)
  ELSE [s EXCEPT !.pc = @ + increment(JNE)]

(* call pushing pc + 3 as the return address *)
call_wrong_return(s) ==
  LET s1 == [s EXCEPT !.reg[SP] = @ - 1] IN
  IF ~RamOk(s1.reg[SP]) THEN Raise(s1, "IndexError")
  ELSE LET s2 == [s1 EXCEPT !.ram = ram_write(s1.ram, s1.reg[SP], s1.pc + 3)] IN
    IF ~RamOk(s2.pc + 1) THEN Raise(s2, "IndexError")
    ELSE LET num == ram_read(s2.ram, s2.pc + 1) IN
      IF ~RegOk(num) THEN Raise(s2, "IndexError")
      ELSE [s2 EXCEPT !.pc = s2.reg[RegIdx(num)]]

call(s) ==
  LET s1 == [s EXCEPT !.reg[SP] = @ - 1] IN
  IF ~RamOk(s1.reg[SP]) THEN Raise(s1, "IndexError")
  ELSE LET s2 == [s1 EXCEPT !.ram = ram_write(s1.ram, s1.reg[SP], s1.pc + 2)] IN
    IF ~RamOk(s2.pc + 1) THEN Raise(s2, "IndexError")
    ELSE LET num == ram_read(s2.ram, s2.pc + 1) IN
      IF ~RegOk(num) THEN Raise(s2, "IndexError")
      ELSE [s2 EXCEPT !.pc = s2.reg[RegIdx(num)]]

(* ret leaving the stack pointer where it was *)
ret_keeps_sp(s) ==
  IF ~RamOk(s.reg[SP]) THEN Raise(s, "IndexError")
  ELSE [s EXCEPT !.pc = ram_read(s.ram, s.reg[SP])]

ret(s) ==
  IF ~RamOk(s.reg[SP]) THEN Raise(s, "IndexError")
  ELSE [s EXCEPT !.pc = ram_read(s.ram, s.reg[SP]), !.reg[SP] = @ + 1]

pop(s) ==
  IF ~RamOk(s.pc + 1) THEN Raise(s, "IndexError")
  ELSE LET reg_index == ram_read(s.ram, s.pc + 1) IN
    IF ~RamOk(s.reg[SP]) THEN Raise(s, "IndexError")
    ELSE LET num == ram_read(s.ram, s.reg[SP]) IN
      IF ~RegOk(reg_index) THEN Raise(s, "IndexError")
      ELSE LET s1 == [s EXCEPT !.reg[RegIdx(reg_index)] = num] IN
        [s1 EXCEPT !.reg[SP] = @ + 1]

(* push writing at the old stack pointer, before the decrement *)
push_write_first(s) ==
  IF ~RamOk(s.pc + 1) THEN Raise(s, "IndexError")
  ELSE LET reg_index == ram_read(s.ram, s.pc + 1) IN
    IF ~RegOk(reg_index) THEN Raise(s, "IndexError")
    ELSE LET num == s.reg[RegIdx(reg_index)] IN
      IF ~RamOk(s.reg[SP]) THEN Raise(s, "IndexError")
      ELSE [s EXCEPT !.ram = ram_write(s.ram, s.reg[SP], num), !.reg[SP] = @ - 1]

push(s) ==
  IF ~RamOk(s.pc + 1) THEN Raise(s, "IndexError")
  ELSE LET reg_index == ram_read(s.ram, s.pc + 1) IN
    IF ~RegOk(reg_index) THEN Raise(s, "IndexError")
    ELSE LET num == s.reg[RegIdx(reg_index)]
             s1 == [s EXCEPT !.reg[SP] = @ - 1] IN
      IF ~RamOk(s1.reg[SP]) THEN Raise(s1, "IndexError")
      ELSE [s1 EXCEPT !.ram = ram_write(s1.ram, s1.reg[SP], num)]

halt(s) == [s EXCEPT !.stop = TRUE]

(* ldi storing the value in memory as well as in the register *)
ldi_to_memory(s) ==
  IF ~RamOk(s.pc + 1) \/ ~RamOk(s.pc + 2) THEN Raise(s, "IndexError")
  ELSE LET reg_index == ram_read(s.ram, s.pc + 1)
           num == ram_read(s.ram, s.pc + 2) IN
    IF ~RegOk(reg_index) THEN Raise(s, "IndexError")
    ELSE [s EXCEPT !.reg[RegIdx(reg_index)] = num,
                   !.ram = ram_write(s.ram, reg_index, num)]

(* ldi taking the value from pc + 1 and the register index from pc + 2 *)
ldi_operands_swapped(s) ==
  IF ~RamOk(s.pc + 1) \/ ~RamOk(s.pc + 2) THEN Raise(s, "IndexError")
  ELSE LET reg_index == ram_read(s.ram, s.pc + 2)
           num == ram_read(s.ram, s.pc + 1) IN
    IF ~RegOk(reg_index) THEN Raise(s, "IndexError")
    ELSE [s EXCEPT !.reg[RegIdx(reg_index)] = num]

ldi(s) ==
  IF ~RamOk(s.pc + 1) \/ ~RamOk(s.pc + 2) THEN Raise(s, "IndexError")
  ELSE LET reg_index == ram_read(s.ram, s.pc + 1)
           num == ram_read(s.ram, s.pc + 2) IN
    IF ~RegOk(reg_index) THEN Raise(s, "IndexError")
    ELSE [s EXCEPT !.reg[RegIdx(reg_index)] = num]

(* prn printing the register index instead of the register *)
prn_prints_index(s) ==
  IF ~RamOk(s.pc + 1) THEN Raise(s, "IndexError")
  ELSE LET reg_index == ram_read(s.ram, s.pc + 1) IN
    IF ~RegOk(reg_index) THEN Raise(s, "IndexError")
    ELSE [s EXCEPT !.output = Append(@, [kind |-> "value", val |-> reg_index])]

prn(s) ==
  IF ~RamOk(s.pc + 1) THEN Raise(s, "IndexError")
  ELSE LET reg_index == ram_read(s.ram, s.pc + 1) IN
    IF ~RegOk(reg_index) THEN Raise(s, "IndexError")
    ELSE [s EXCEPT !.output =
            Append(@, [kind |-> "value", val |-> s.reg[RegIdx(reg_index)]])]

nop(s) == s

run_alu(s, opcode) ==
  IF ~RamOk(s.pc + 1) \/ ~RamOk(s.pc + 2) THEN Raise(s, "IndexError")
  ELSE alu_run(s, opcode, ram_read(s.ram, s.pc + 1), ram_read(s.ram, s.pc + 2))

(* keys of CPU.branchtable *)
branchtable == {HALT, LDI, PRN, NOP, POP, PUSH, CALL, RET, JMP, JEQ, JNE}

dispatch(s, command) ==
  CASE command = HALT -> halt(s)
    [] command = LDI -> ldi(s)
    [] command = PRN -> prn(s)
    [] command = NOP -> nop(s)
    [] command = POP -> pop(s)
    [] command = PUSH -> push(s)
    [] command = CALL -> call(s)
    [] command = RET -> ret(s)
    [] command = JMP -> jmp(s)
    [] command = JEQ -> jeq(s)
    [] command = JNE -> jne(s)

(* the else branch of run skipping the byte instead of exiting *)
unknown_instruction_skip(s, command) ==
  [s EXCEPT !.output = Append(@, [kind |-> "unknown", val |-> command]),
            !.pc = @ + 1]

(* the else branch of run: print the diagnostic and sys.exit(1) *)
unknown_instruction(s, command) ==
  [s EXCEPT !.output = Append(@, [kind |-> "unknown", val |-> command]),
            !.status = "exit1"]

(* run leaving the loop as soon as the handler returns True *)
advance_break_on_stop(r, command) ==
  IF r.status # "running" THEN r
  ELSE IF r.stop THEN [r EXCEPT !.status = "halted"]
  ELSE IF sets_pc(command) = 0 THEN [r EXCEPT !.pc = @ + increment(command)]
  ELSE r

(* run advancing by the opcode byte only *)
advance_by_one(r, command) ==
  IF r.status # "running" THEN r
  ELSE LET r1 == IF sets_pc(command) = 0 THEN [r EXCEPT !.pc = @ + 1] ELSE r IN
    IF r1.stop THEN [r1 EXCEPT !.status = "halted"] ELSE r1

(* lines 243-244 of run, reached only when the handler returned normally; *)
(* the while test then ends the run when the handler returned True        *)
advance(r, command) ==
  IF r.status # "running" THEN r
  ELSE LET r1 == IF sets_pc(command) = 0
                 THEN [r EXCEPT !.pc = @ + increment(command)]
                 ELSE r IN
    IF r1.stop THEN [r1 EXCEPT !.status = "halted"] ELSE r1

(* one iteration of the while loop of run, from a state whose pc is readable *)
run_body(s) ==
  LET command == ram_read(s.ram, s.pc) IN
  IF command \in alu_ops THEN advance(run_alu(s, command), command)
  ELSE IF command \in branchtable THEN advance(dispatch(s, command), command)
  ELSE unknown_instruction(s, command)

(* ---------------- loader (CPU.load, lines 194-196) ---------------- *)
load(program) ==
  [address \in 0..(RAM_SIZE - 1) |->
     IF address < Len(program) THEN program[address + 1] ELSE 0]

(* a program text whose lines between main and seg are 00000000 *)
Image(main, at, seg) == main \o [k \in 1..(at - Len(main)) |-> 0] \o seg

(* ---------------- programs handed to the loader ---------------- *)
Regs == 0..(REG_COUNT - 1)

PushPopProgs ==
  { <<LDI, i, v, LDI, 7, s, PUSH, i, POP, j, HALT>> :
      i \in Regs, j \in Regs, v \in {5, 200}, s \in {SP_INIT, 0, 9, 10} }

CallProgs ==
  { Image(<<LDI, 7, s, LDI, i, t, CALL, i, PRN, i, HALT>>, t, <<r>>) :
      s \in {SP_INIT, 0}, i \in Regs, t \in {12, 100, 243}, r \in {RET, HALT} }
  \cup { Image(<<LDI, 7, s, LDI, 0, 15, JMP, 0>>, 15, <<CALL, 7, HALT>>) :
           s \in {SP_INIT, 100} }

AluProgs ==
  { <<LDI, a, x, LDI, b, y, op, a, b, PRN, a, HALT>> :
      op \in alu_ops, a \in {0, 1, 7}, b \in {0, 1, 7}, x \in {0, 1, 5, 255},
      y \in {0, 1, 5, 255} }
  \cup { <<LDI, a, x, NOT, a, PRN, a, HALT>> : a \in {0, 7}, x \in {0, 5, 255} }
  \cup { <<LDI, 0, 8, LDI, 1, 9, MULT, 0, 1, PRN, 0, HALT>> }

NegativeProgs ==
  { <<LDI, 7, 0, PUSH, 0, LDI, 0, x, op, a, b, PRN, a, HALT>> :
      op \in alu_ops, x \in {1, 5, 255}, a \in {0, 7}, b \in {0, 7} }
  \cup { <<LDI, 7, 0, LDI, 0, v, PUSH, 0, JMP, 7>> : v \in {NOP, HALT, PRN, 255} }
  \cup { <<LDI, 7, 0, PUSH, 0, LDI, 0, 255, MULT, 7, 0, PUSH, 0, PUSH, 0,
           PUSH, 0, HALT>> }

CmpJmpProgs ==
  { <<LDI, 0, x, LDI, 1, y, LDI, 2, 16, CMP, 0, 1, j, 2, PRN, 0, HALT>> :
      x \in {4, 5, 6}, y \in {4, 5, 6}, j \in {JEQ, JNE, JMP} }
  \cup { <<LDI, 0, x, LDI, 1, y, LDI, 2, 21, CMP, 0, 1, ADD, 0, 1, j1, 2, j2, 2,
           PRN, 0, HALT>> :
           x \in {4, 5}, y \in {4, 5}, j1 \in {JEQ, JNE}, j2 \in {JEQ, JNE} }
  \cup { <<LDI, 2, 7, j, 2, PRN, 2, HALT>> : j \in {JEQ, JNE, JMP} }

UnknownProgs ==
  { <<c>> : c \in {255, 2, 16, 200} }
  \cup { <<LDI, 0, 5, PUSH, 0, c>> : c \in {255, 2, 16, 200} }

operand_ops == (alu_ops \cup branchtable) \ {HALT, NOP, RET}

EdgeProgs ==
  { Image(<<LDI, 0, at, JMP, 0>>, at, SubSeq(<<op, 0, 0>>, 1, RAM_SIZE - at)) :
      at \in {253, 254, 255}, op \in alu_ops \cup branchtable }
  \cup { <<op, 9, 0, HALT>> : op \in operand_ops }
  \cup { <<op, 0, 9, HALT>> : op \in operand_ops }
  \cup { <<LDI, 0, 255, ADD, 0, 0, JMP, 0>>,
         <<LDI, 7, 255, POP, 0, POP, 0, HALT>>,
         <<LDI, 7, 255, POP, 0, RET>>,
         <<LDI, 7, 255, ADD, 7, 7, PUSH, 0, HALT>>,
         <<LDI, 7, 255, ADD, 7, 7, LDI, 0, 10, CALL, 0, HALT>> }

(* every register loaded with every byte *)
LdiProgs ==
  { <<LDI, i, v, PRN, i, HALT>> : i \in Regs, v \in 0..(RAM_SIZE - 1) }

(* an arithmetic result pushed and popped back *)
WideProgs ==
  { <<LDI, 0, x, LDI, 1, y, op, 0, 1, PUSH, 0, POP, 2, PRN, 2, HALT>> :
      op \in {ADD, MULT, SHL}, x \in {255, 200}, y \in {255, 2} }

(* stack instructions on registers 0..2, a RET at address 20 *)
StackProgs ==
  { Image(<<LDI, 0, 20, x1, 0, x2, 1, x3, 2, HALT>>, 20, <<RET>>) :
      x1 \in {PUSH, POP, CALL}, x2 \in {PUSH, POP, CALL},
      x3 \in {PUSH, POP, CALL} }

(* several PRN in one run *)
PrnProgs ==
  { <<LDI, 0, x, PRN, 0, LDI, 0, y, PRN, 0, PRN, 1, HALT>> :
      x \in {1, 72}, y \in {1, 72} }

Programs ==
  PushPopProgs \cup CallProgs \cup AluProgs \cup NegativeProgs
    \cup CmpJmpProgs \cup UnknownProgs \cup EdgeProgs
    \cup LdiProgs \cup WideProgs \cup StackProgs \cup PrnProgs

(* ---------------- state ---------------- *)
(* no opcode or operand was read *)
NoOp == -(4 * RAM_SIZE)

State ==
  [pc |-> pc, reg |-> reg, ram |-> ram, fl |-> fl, output |-> output,
   status |-> status, stop |-> FALSE]

(* the byte at pc + k as the handler reads it; CALL reads its operand after *)
(* its write to the stack                                                     *)
Operand(s, r, k) ==
  IF ~RamOk(s.pc + k) THEN NoOp
  ELSE IF ram_read(s.ram, s.pc) = CALL THEN ram_read(r.ram, s.pc + k)
  ELSE ram_read(s.ram, s.pc + k)

(* the indexes handed to ram_read and ram_write by an iteration that *)
(* returns normally from state s                                      *)
Accesses(s) ==
  LET command == ram_read(s.ram, s.pc) IN
  {s.pc} \cup
  ( CASE command \in alu_ops \cup {LDI} -> {s.pc + 1, s.pc + 2}
      [] command \in {PRN, JMP} -> {s.pc + 1}
      [] command = JEQ -> IF s.fl = 1 THEN {s.pc + 1} ELSE {}
      [] command = JNE -> IF s.fl # 1 THEN {s.pc + 1} ELSE {}
      [] command = POP -> {s.pc + 1, s.reg[SP]}
      [] command = PUSH -> {s.pc + 1, s.reg[SP] - 1}
      [] command = CALL -> {s.pc + 1, s.reg[SP] - 1}
      [] command = RET -> {s.reg[SP]}
      [] OTHER -> {} )

(* the runs explored keep every integer within MaxInt *)
Modelled(s) ==
  LET command == ram_read(s.ram, s.pc) IN
  IF command \in {MULT, SHL} /\ RamOk(s.pc + 1) /\ RamOk(s.pc + 2)
     /\ RegOk(ram_read(s.ram, s.pc + 1)) /\ RegOk(ram_read(s.ram, s.pc + 2))
  THEN LET x == s.reg[RegIdx(ram_read(s.ram, s.pc + 1))]
           y == s.reg[RegIdx(ram_read(s.ram, s.pc + 2))] IN
       IF y = 0 THEN TRUE
       ELSE IF command = MULT THEN Abs(x) <= MaxInt \div Abs(y)
       ELSE IF y < 0 THEN TRUE
       ELSE IF x = 0 THEN TRUE
       ELSE IF y > MaxShift THEN FALSE
       ELSE Abs(x) <= MaxInt \div Pow2(y)
  ELSE TRUE

Bounded(r) ==
  /\ Abs(r.pc) <= MaxInt
  /\ \A i \in Regs : Abs(r.reg[i]) <= MaxInt

Commit(r) ==
  LET s == State
      command == IF RamOk(pc) THEN ram_read(ram, pc) ELSE NoOp
      a == Operand(s, r, 1)
      b == Operand(s, r, 2) IN
  /\ pc' = r.pc
  /\ reg' = r.reg
  /\ ram' = r.ram
  /\ fl' = r.fl
  /\ output' = r.output
  /\ status' = r.status
  /\ steps' = steps + 1
  /\ prev' = last
  /\ last' = [op |-> command, p |-> pc, a |-> a, b |-> b, reg |-> reg,
              fl |-> fl,
              oob |-> RamOk(pc) /\ \E x \in Accesses(s) : x \notin 0..(RAM_SIZE - 1)]
  /\ lastcmp' = IF command = CMP /\ r.status = "running"
                THEN (IF reg[RegIdx(a)] = reg[RegIdx(b)] THEN "eq" ELSE "ne")
                ELSE lastcmp
  /\ acct' = IF r.status \notin {"running", "halted"} THEN acct
             ELSE [down |-> acct.down + (IF command \in {PUSH, CALL} THEN 1 ELSE 0),
                   up |-> acct.up + (IF command \in {POP, RET} THEN 1 ELSE 0),
                   named7 |-> IF command \in alu_ops \cup {LDI, POP}
                              THEN (IF RegIdx(a) = SP THEN TRUE ELSE acct.named7)
                              ELSE acct.named7]

NoInstr ==
  [op |-> NoOp, p |-> 0, a |-> NoOp, b |-> NoOp,
   reg |-> [i \in Regs |-> 0], fl |-> 0, oob |-> FALSE]

(* CPU.__init__, CPU.load and the reset of pc at the top of run *)
Init ==
  /\ \E program \in Programs : ram = load(program)
  /\ reg = [i \in Regs |-> IF i = SP THEN SP_INIT ELSE 0]
  /\ pc = 0
  /\ fl = 0
  /\ status = "running"
  /\ output = << >>
  /\ steps = 0
  /\ last = NoInstr
  /\ prev = NoInstr
  /\ lastcmp = "none"
  /\ acct = [down |-> 0, up |-> 0, named7 |-> FALSE]

Fetching == status = "running" /\ steps < MaxSteps

(* the loop fetches op at pc *)
Fetched(op) == Fetching /\ RamOk(pc) /\ ram_read(ram, pc) = op

Explored(s) == IF Modelled(s) THEN Bounded(run_body(s)) ELSE FALSE

ExecHalt ==
  /\ Fetched(HALT)
  /\ Commit(run_body(State))

ExecLdi ==
  /\ Fetched(LDI)
  /\ Commit(run_body(State))

ExecPrn ==
  /\ Fetched(PRN)
  /\ Commit(run_body(State))

ExecNop ==
  /\ Fetched(NOP)
  /\ Commit(run_body(State))

ExecPop ==
  /\ Fetched(POP)
  /\ Commit(run_body(State))

ExecPush ==
  /\ Fetched(PUSH)
  /\ Commit(run_body(State))

ExecCall ==
  /\ Fetched(CALL)
  /\ Commit(run_body(State))

ExecRet ==
  /\ Fetched(RET)
  /\ Commit(run_body(State))

ExecJmp ==
  /\ Fetched(JMP)
  /\ Commit(run_body(State))

ExecJeq ==
  /\ Fetched(JEQ)
  /\ Commit(run_body(State))

ExecJne ==
  /\ Fetched(JNE)
  /\ Commit(run_body(State))

ExecAnd ==
  /\ Fetched(AND)
  /\ Explored(State)
  /\ Commit(run_body(State))

ExecXor ==
  /\ Fetched(XOR)
  /\ Explored(State)
  /\ Commit(run_body(State))

ExecOr ==
  /\ Fetched(OR)
  /\ Explored(State)
  /\ Commit(run_body(State))

ExecNot ==
  /\ Fetched(NOT)
  /\ Explored(State)
  /\ Commit(run_body(State))

ExecShl ==
  /\ Fetched(SHL)
  /\ Explored(State)
  /\ Commit(run_body(State))

ExecShr ==
  /\ Fetched(SHR)
  /\ Explored(State)
  /\ Commit(run_body(State))

ExecMod ==
  /\ Fetched(MOD)
  /\ Explored(State)
  /\ Commit(run_body(State))

ExecMult ==
  /\ Fetched(MULT)
  /\ Explored(State)
  /\ Commit(run_body(State))

ExecAdd ==
  /\ Fetched(ADD)
  /\ Explored(State)
  /\ Commit(run_body(State))

ExecCmp ==
  /\ Fetched(CMP)
  /\ Explored(State)
  /\ Commit(run_body(State))

(* the fetched byte is in neither table *)
ExecUnknown ==
  /\ Fetching
  /\ RamOk(pc)
  /\ ram_read(ram, pc) \notin alu_ops \cup branchtable
  /\ Commit(run_body(State))

(* the fetch itself indexes outside the list *)
FetchFault ==
  /\ Fetching
  /\ ~RamOk(pc)
  /\ Commit(Raise(State, "IndexError"))

Next ==
  \/ ExecHalt
  \/ ExecLdi
  \/ ExecPrn
  \/ ExecNop
  \/ ExecPop
  \/ ExecPush
  \/ ExecCall
  \/ ExecRet
  \/ ExecJmp
  \/ ExecJeq
  \/ ExecJne
  \/ ExecAnd
  \/ ExecXor
  \/ ExecOr
  \/ ExecNot
  \/ ExecShl
  \/ ExecShr
  \/ ExecMod
  \/ ExecMult
  \/ ExecAdd
  \/ ExecCmp
  \/ ExecUnknown
  \/ FetchFault

Spec == Init /\ [][Next]_vars

TypeOK ==
  /\ status \in {"running", "halted", "exit1", "IndexError", "DivisionByZero",
                 "ValueError"}
  /\ DOMAIN ram = 0..(RAM_SIZE - 1)
  /\ DOMAIN reg = Regs

(* ======================= properties ======================= *)
Running == status = "running"

(* the last two iterations were a PUSH and then a POP, both returning *)
(* normally, with register operands i and j in 0..7                    *)
PushThenPop ==
  /\ Running
  /\ prev.op = PUSH
  /\ last.op = POP
  /\ prev.a \in Regs
  /\ last.a \in Regs

(* C1 as stated: PUSH(i) immediately followed by POP(j), for all i and j in *)
(* 0..7, leaves SP at its value before the PUSH and register j at the value  *)
(* register i held before the PUSH.                                          *)
C1_PushPopAllRegisters ==
  PushThenPop =>
    /\ reg[SP] = prev.reg[SP]
    /\ reg[last.a] = prev.reg[prev.a]

(* C1 amended: the statement holds for j in 0..6; for j = 7 the popped value *)
(* is stored into SP and then incremented, so SP ends at the pre-push value  *)
(* of register i plus 1.                                                     *)
C1_PushPop ==
  PushThenPop =>
    IF last.a # SP
    THEN /\ reg[SP] = prev.reg[SP]
         /\ reg[last.a] = prev.reg[prev.a]
    ELSE reg[SP] = prev.reg[prev.a] + 1

C1_Witness ==
  /\ PushThenPop
  /\ last.a # SP
  /\ prev.a # last.a
  /\ prev.reg[prev.a] = 200
  /\ reg[last.a] = 200
  /\ reg[SP] = SP_INIT

(* C2: a CALL executed at address p and then the RET at its target leave PC *)
(* at p + 2 and SP at its value before the CALL.                            *)
C2_CallRet ==
  (Running /\ prev.op = CALL /\ last.op = RET) =>
    /\ pc = prev.p + 2
    /\ reg[SP] = prev.reg[SP]

C2_Witness ==
  /\ Running
  /\ prev.op = CALL
  /\ last.op = RET
  /\ prev.a \in Regs
  /\ last.p = 100
  /\ pc = prev.p + 2

(* C3 as stated: when the run loop exits because of HALT, PC still equals *)
(* the address of the HALT opcode.                                        *)
C3_HaltKeepsPC == status = "halted" => pc = last.p

(* C3 amended: the HALT handler leaves PC alone, but the loop applies the *)
(* auto-advance of a no-operand opcode before it exits, so the run ends   *)
(* with PC at the HALT address plus 1 (registers and flags untouched).    *)
C3_HaltAdvancesPC ==
  status = "halted" =>
    /\ last.op = HALT
    /\ pc = last.p + 1
    /\ reg = last.reg
    /\ fl = last.fl

C3_Witness == status = "halted" /\ last.op = HALT /\ last.p > 0

(* C4 as stated: each of the ten ALU opcodes leaves PC at p + 3. *)
C4_AluAdvancesThree ==
  (Running /\ last.op \in alu_ops) => pc = last.p + 3

(* C4 amended: the nine ALU opcodes ADD, MULT, AND, XOR, OR, SHL, SHR, MOD, *)
(* CMP leave PC at p + 3; NOT encodes one operand and leaves PC at p + 2.   *)
C4_AluAdvance ==
  (Running /\ last.op \in alu_ops) =>
    pc = last.p + (IF last.op = NOT THEN 2 ELSE 3)

C4_Witness ==
  /\ Running
  /\ last.op \in alu_ops \ {NOT}
  /\ prev.op = LDI
  /\ pc = last.p + 3

JumpTaken ==
  \/ last.op \in {CALL, JMP}
  \/ last.op = JEQ /\ last.fl = 1
  \/ last.op = JNE /\ last.fl # 1

(* C5: after CALL, JMP or a taken JEQ/JNE, PC is the register named by the *)
(* operand; after RET, PC is the memory value popped; nothing is added.    *)
C5_SelfPositioning ==
  Running =>
    /\ JumpTaken => pc = reg[RegIdx(last.a)]
    /\ last.op = RET => pc = ram_read(ram, last.reg[SP])

C5_Witness ==
  /\ Running
  /\ last.op = JMP
  /\ pc = reg[RegIdx(last.a)]
  /\ pc # last.p + 2

(* C6: LDI advances PC by 3, PRN by 2, NOP by 1, POP by 2 and PUSH by 2. *)
C6_AutoAdvance ==
  Running =>
    /\ last.op = LDI => pc = last.p + 3
    /\ last.op = PRN => pc = last.p + 2
    /\ last.op = NOP => pc = last.p + 1
    /\ last.op = POP => pc = last.p + 2
    /\ last.op = PUSH => pc = last.p + 2

C6_Witness == Running /\ last.op = PUSH /\ prev.op = LDI /\ pc = last.p + 2

(* C7: an iteration that reads or writes memory at an index outside 0..255 *)
(* aborts the run; it never completes on a wrapped-around cell.            *)
C7_OutOfRangeAborts == last.oob => status \notin {"running", "halted"}

(* C8: when the byte fetched at PC is in neither table the iteration ends *)
(* the run with the failure status and leaves PC, registers, memory and   *)
(* flags as they were at the fetch; nothing runs after the exit.          *)
C8_UnknownOpcodeExits ==
  [][ /\ (Running /\ RamOk(pc) /\ ram_read(ram, pc) \notin alu_ops \cup branchtable)
         => (status' = "exit1" /\ pc' = pc /\ reg' = reg /\ ram' = ram /\ fl' = fl)
      /\ status = "exit1" => FALSE ]_vars

C8_Witness ==
  /\ status = "exit1"
  /\ pc = 0
  /\ ram[0] = 255
  /\ last.op = 255
  /\ reg = [i \in Regs |-> IF i = SP THEN SP_INIT ELSE 0]

(* C9: MOD(a, b) with reg[b] = 0 ends the run with the division-by-zero *)
(* error, registers and PC as they were; no further iteration follows.  *)
C9_ModByZeroAborts ==
  (last.op = MOD /\ RegOk(last.b) /\ last.reg[RegIdx(last.b)] = 0) =>
    /\ status = "DivisionByZero"
    /\ reg = last.reg
    /\ pc = last.p

C9_Witness ==
  /\ status = "DivisionByZero"
  /\ last.op = MOD
  /\ last.a \in Regs
  /\ last.reg[last.a] = 5

(* LDI R0,5; LDI R1,5; LDI R2,<addr of HALT>; CMP R0,R1; JEQ R2; PRN R0; HALT *)
CmpScenario ==
  <<LDI, 0, 5, LDI, 1, 5, LDI, 2, 16, CMP, 0, 1, JEQ, 2, PRN, 0, HALT>>

(* C10: CMP(a, b) on equal registers leaves exactly the equal bit in the  *)
(* flags; while the most recent CMP compared equal, a JEQ sets PC to the  *)
(* register it names and a JNE falls through; the scenario program halts  *)
(* without having printed anything.                                       *)
C10_EqualCompareThenJump ==
  /\ (Running /\ last.op = CMP
        /\ last.reg[RegIdx(last.a)] = last.reg[RegIdx(last.b)]) => fl = 1
  /\ (Running /\ last.op = JEQ /\ lastcmp = "eq") => pc = reg[RegIdx(last.a)]
  /\ (Running /\ last.op = JNE /\ lastcmp = "eq") => pc = last.p + 2
  /\ (ram = load(CmpScenario) /\ last.op \in {JEQ, HALT})
        => (output = << >> /\ pc >= 16)

C10_Witness ==
  /\ ram = load(CmpScenario)
  /\ status = "halted"
  /\ prev.op = JEQ
  /\ lastcmp = "eq"
  /\ output = << >>

(* C11: CMP(a, b) leaves in the flags exactly 0b001 when reg[a] = reg[b], *)
(* 0b100 when reg[a] < reg[b] and 0b010 when reg[a] > reg[b], and leaves   *)
(* all eight registers unchanged.                                          *)
C11_CmpFlags ==
  (Running /\ last.op = CMP) =>
    LET x == last.reg[RegIdx(last.a)]
        y == last.reg[RegIdx(last.b)] IN
    /\ fl = (IF x = y THEN 1 ELSE IF x < y THEN 4 ELSE 2)
    /\ reg = last.reg

C11_Witness ==
  /\ Running
  /\ last.op = CMP
  /\ last.reg[RegIdx(last.a)] < last.reg[RegIdx(last.b)]
  /\ fl = 4

(* C12: after LDI(i, v) with i in 0..7 and v in 0..255, register i holds v *)
(* and every other register is unchanged.                                  *)
C12_Ldi ==
  (Running /\ last.op = LDI /\ last.a \in Regs /\ last.b \in 0..(RAM_SIZE - 1)) =>
    /\ reg[last.a] = last.b
    /\ \A k \in Regs \ {last.a} : reg[k] = last.reg[k]

C12_Witness ==
  /\ Running
  /\ last.op = LDI
  /\ last.a = 3
  /\ last.b = 255
  /\ reg[3] = 255
  /\ reg[SP] = SP_INIT

(* C13: every memory cell holds a value in 0..255 in every reachable state *)
(* of a run started from a memory of bytes.                                *)
C13_MemoryBytes == \A k \in 0..(RAM_SIZE - 1) : ram[k] \in 0..255

(* LDI R0,8; LDI R1,9; MULT R0,R1; PRN R0; HALT *)
MultScenario == <<LDI, 0, 8, LDI, 1, 9, MULT, 0, 1, PRN, 0, HALT>>

(* C14: an iteration whose opcode is none of PUSH, POP, CALL, RET leaves all *)
(* 256 memory cells unchanged.                                               *)
C14_MemoryFrame ==
  [][ (Running /\ RamOk(pc) /\ ram_read(ram, pc) \notin {PUSH, POP, CALL, RET})
        => ram' = ram ]_vars

C14_Witness ==
  /\ status = "halted"
  /\ ram = load(MultScenario)
  /\ prev.op = PRN
  /\ reg[0] = 72

(* C15: every instruction other than CMP leaves the flags unchanged, so the *)
(* flags a JEQ/JNE sees are those of the most recent CMP (0 before any).     *)
C15_FlagsFrame ==
  /\ last.op # CMP => fl = last.fl
  /\ lastcmp = "none" => fl = 0
  /\ lastcmp = "eq" => fl = 1
  /\ lastcmp = "ne" => fl \in {2, 4}

C15_Witness ==
  /\ Running
  /\ last.op \in {JEQ, JNE}
  /\ prev.op = ADD
  /\ lastcmp = "ne"
  /\ fl = 4

PrnLine(v) == [kind |-> "value", val |-> v]

(* an iteration that executes PRN and returns normally *)
PrnExecutes ==
  IF Running /\ RamOk(pc) THEN ram_read(ram, pc) = PRN /\ status' = "running"
  ELSE FALSE

(* C16 as stated: each iteration appends the operand register's value when *)
(* it executes PRN and appends nothing otherwise; the program LDI R0,8;    *)
(* LDI R1,9; MULT R0,R1; PRN R0; HALT ends with the single line 72.        *)
C16_OnlyPrnWrites ==
  [][ /\ output' = IF PrnExecutes
                   THEN Append(output, PrnLine(reg[RegIdx(ram_read(ram, pc + 1))]))
                   ELSE output
      /\ (ram = load(MultScenario) /\ status' = "halted")
           => output' = <<PrnLine(72)>> ]_vars

(* C16 amended: as stated, except that the iteration that fetches an unknown *)
(* opcode appends one diagnostic line naming that opcode before it exits.    *)
C16_Output ==
  [][ /\ output' = IF PrnExecutes
                   THEN Append(output, PrnLine(reg[RegIdx(ram_read(ram, pc + 1))]))
                   ELSE IF status' = "exit1"
                   THEN Append(output, [kind |-> "unknown", val |-> ram_read(ram, pc)])
                   ELSE output
      /\ (ram = load(MultScenario) /\ status' = "halted")
           => output' = <<PrnLine(72)>> ]_vars

C16_Witness ==
  /\ status = "halted"
  /\ ram = load(MultScenario)
  /\ output = <<PrnLine(72)>>

(* the loop is about to execute a conditional jump that will not be taken *)
NotTaken ==
  IF Running /\ RamOk(pc)
  THEN \/ ram_read(ram, pc) = JEQ /\ fl # 1
       \/ ram_read(ram, pc) = JNE /\ fl = 1
  ELSE FALSE

(* C17: a JEQ or JNE that is not taken advances PC by exactly 2 and leaves *)
(* registers, memory and flags unchanged, the same for both opcodes.       *)
C17_FallThrough ==
  [][ NotTaken =>
        /\ pc' = pc + 2
        /\ reg' = reg
        /\ ram' = ram
        /\ fl' = fl
        /\ status' = "running" ]_vars

C17_Witness ==
  /\ Running
  /\ last.op = JNE
  /\ last.fl = 1
  /\ pc = last.p + 2
  /\ reg = last.reg

(* C18: ADD and MULT leave in reg[A] the exact integer sum and product of *)
(* the previous reg[A] and reg[B], with no reduction modulo 256.          *)
C18_ExactArithmetic ==
  /\ (Running /\ last.op = ADD) =>
        reg[RegIdx(last.a)] = last.reg[RegIdx(last.a)] + last.reg[RegIdx(last.b)]
  /\ (Running /\ last.op = MULT) =>
        reg[RegIdx(last.a)] = last.reg[RegIdx(last.a)] * last.reg[RegIdx(last.b)]

(* LDI 255, LDI 255, ADD gives 510 *)
C18_Witness ==
  /\ Running
  /\ last.op = ADD
  /\ last.reg[RegIdx(last.a)] = 255
  /\ last.reg[RegIdx(last.b)] = 255
  /\ reg[RegIdx(last.a)] = 510

(* C19: while no executed LDI, POP or ALU instruction has named register 7 *)
(* as its operand A, SP equals 0xF4 minus the number of PUSH and CALL      *)
(* executed plus the number of POP and RET executed.                       *)
C19_StackAccounting ==
  (status \in {"running", "halted"} /\ ~acct.named7) =>
    reg[SP] = SP_INIT - acct.down + acct.up

C19_Witness ==
  /\ Running
  /\ ~acct.named7
  /\ last.op = PUSH
  /\ prev.op = RET
  /\ acct.down = 2
  /\ acct.up = 1
  /\ reg[SP] = SP_INIT - 1

(* the byte at pc + 1 names a register *)
OperandReadable ==
  IF RamOk(pc + 1) THEN RegOk(ram_read(ram, pc + 1)) ELSE FALSE

(* C20: in every reachable state exactly one of JEQ and JNE would take the *)
(* jump: with flags 1 JEQ jumps and JNE falls through by 2, with any other *)
(* flags value JNE jumps and JEQ falls through; before any CMP the flags   *)
(* are 0, so an executed JNE jumps and an executed JEQ falls through.      *)
C20_Complementary ==
  /\ OperandReadable =>
       LET s == State
           taken == [s EXCEPT !.pc = reg[RegIdx(ram_read(ram, pc + 1))]]
           skipped == [s EXCEPT !.pc = pc + 2] IN
       IF fl = 1 THEN jeq(s) = taken /\ jne(s) = skipped
       ELSE jeq(s) = skipped /\ jne(s) = taken
  /\ lastcmp = "none" => fl = 0
  /\ (Running /\ lastcmp = "none" /\ last.op = JNE) => pc = reg[RegIdx(last.a)]
  /\ (Running /\ lastcmp = "none" /\ last.op = JEQ) => pc = last.p + 2

C20_Witness ==
  /\ Running
  /\ lastcmp = "none"
  /\ last.op = JNE
  /\ fl = 0
  /\ pc = reg[RegIdx(last.a)]
  /\ pc # last.p + 2

====
